---- MODULE Spec2Model ----
(***************************************************************************)
(* AR Monthly Shop Expense Manager (src/main.py): the PIN gate, the form   *)
(* with its expense rows, the record store under records/, the saved-      *)
(* records listing and the load/edit/commit workflow, as a state machine.  *)
(*                                                                         *)
(* One step of the machine is one Streamlit script run: the user presses   *)
(* one button (or changes one widget), the script runs from line 161 to    *)
(* the first st.stop(), st.rerun() or uncaught exception, and a st.rerun() *)
(* is followed at once by a run with no button pressed.                    *)
(*                                                                         *)
(* Text is a sequence of code points, so that str comparison, isdigit and  *)
(* len are computed as Python computes them.  Floats are exact fixed-point *)
(* numbers: profit_pct in tenths of a percent (the slider's step), money   *)
(* derived from it in thousandths of a currency unit.                      *)
(***************************************************************************)
EXTENDS Integers, Sequences, FiniteSets, TLC

(* ---------------------------- bounds ----------------------------------- *)
\* the clock runs over the seconds 0..MaxTime
MaxTime == 1
\* the user starts at most MaxRuns script runs after opening the page
MaxRuns == 8

(* --------------------------- optional values --------------------------- *)
\* a key absent from st.session_state, a file that does not exist
None == <<>>
Some(v) == <<v>>
IsSome(o) == o # <<>>
Val(o) == o[1]

(* ------------------------------- text ---------------------------------- *)
\* str.isdigit() and len(): line 169
isdigit(s) == Len(s) > 0 /\ \A i \in 1..Len(s) : s[i] \in 48..57

\* Python's str ordering: the first differing code point decides, a proper
\* prefix is smaller
StrLess(a, b) ==
  LET n == IF Len(a) < Len(b) THEN Len(a) ELSE Len(b)
  IN IF \A i \in 1..n : a[i] = b[i] THEN Len(a) < Len(b)
     ELSE LET k == CHOOSE i \in 1..n :
                     a[i] # b[i] /\ \A j \in 1..(i - 1) : a[j] = b[j]
          IN a[k] < b[k]

\* "%02d"
TwoDigits(n) == <<48 + ((n \div 10) % 10), 48 + (n % 10)>>
\* str(int) of a four-digit year
FourDigits(n) == TwoDigits(n \div 100) \o TwoDigits(n % 100)

\* calendar.month_name[m]
MonthName(m) ==
  CASE m = 1 -> <<74, 97, 110, 117, 97, 114, 121>>
    [] m = 2 -> <<70, 101, 98, 114, 117, 97, 114, 121>>
    [] m = 3 -> <<77, 97, 114, 99, 104>>
    [] m = 4 -> <<65, 112, 114, 105, 108>>
    [] m = 5 -> <<77, 97, 121>>
    [] m = 6 -> <<74, 117, 110, 101>>
    [] m = 7 -> <<74, 117, 108, 121>>
    [] m = 8 -> <<65, 117, 103, 117, 115, 116>>
    [] m = 9 -> <<83, 101, 112, 116, 101, 109, 98, 101, 114>>
    [] m = 10 -> <<79, 99, 116, 111, 98, 101, 114>>
    [] m = 11 -> <<78, 111, 118, 101, 109, 98, 101, 114>>
    [] m = 12 -> <<68, 101, 99, 101, 109, 98, 101, 114>>

(* ---------------------------- utility functions ------------------------ *)
\* hashlib.sha256(...).hexdigest(): a one-way injective image of the text
sha256(text) == <<"sha256", text>>

\* calendar.monthrange(year, month)[1]
isleap(year) == year % 4 = 0 /\ (year % 100 # 0 \/ year % 400 = 0)
days_in_month(year, month) ==
  IF month = 2 THEN (IF isleap(year) THEN 29 ELSE 28)
  ELSE IF month \in {4, 6, 9, 11} THEN 30 ELSE 31

\* sum(...) over a list
RECURSIVE SumTo(_, _)
SumTo(s, n) == IF n = 0 THEN 0 ELSE SumTo(s, n - 1) + s[n]
SumSeq(s) == SumTo(s, Len(s))

compute_total_sales(daily) == SumSeq(daily)

\* thousandths of a currency unit per unit, with pct in tenths of a percent:
\* total_sales * (pct / 100.0) = total_sales * pct10 / Milli
Milli == 1000
compute_profit(total_sales, pct) == total_sales * pct

compute_total_expenses(exps) == SumSeq([i \in 1..Len(exps) |-> exps[i].amount])

(* ------------------------------ records -------------------------------- *)
\* the record dict of lines 282-296 and 303-317 (shop_name and tagline, free
\* text no total depends on, are left out; month_name is MonthName(month))
BuildRecord(t, month, year, pct, daily, exps) ==
  LET total_sales == compute_total_sales(daily)
      profit_amount == compute_profit(total_sales, pct)
      total_expenses == compute_total_expenses(exps)
      remaining_profit == profit_amount - Milli * total_expenses
  IN [created_at |-> t, month |-> month, year |-> year, profit_pct |-> pct,
      total_sales |-> total_sales, profit_amount |-> profit_amount,
      total_expenses |-> total_expenses, remaining_profit |-> remaining_profit,
      daily_sales |-> daily, expenses |-> exps]

\* an edit commit that stores the edited inputs beside the totals it loaded
EditedRecordStale(ed, pct, daily, exps) ==
  [ed EXCEPT !.profit_pct = pct, !.daily_sales = daily, !.expenses = exps]

\* lines 419-432: the loaded dict ed with its totals recomputed from the
\* edited widgets
EditedRecord(ed, pct, daily, exps) ==
  LET t_sales == compute_total_sales(daily)
      p_amt == compute_profit(t_sales, pct)
      t_exp == compute_total_expenses(exps)
      rem == p_amt - Milli * t_exp
  IN [ed EXCEPT !.profit_pct = pct, !.total_sales = t_sales,
                !.profit_amount = p_amt, !.total_expenses = t_exp,
                !.remaining_profit = rem, !.daily_sales = daily,
                !.expenses = exps]

(* ---------------------------- record store ----------------------------- *)
\* a file's text: json.dump(record) or, damaged outside the program, text
\* json.load raises on
Json(record) == Some(record)
Garbage == None
\* json.load succeeds
Parses(text) == IsSome(text)
load_record(text) == Val(text)

\* the date the session runs on, "20240301"
ClockDate == <<50, 48, 50, 52, 48, 51, 48, 49>>
\* datetime.now().strftime("%Y%m%d_%H%M%S") at second t of that day
Timestamp(t) ==
  ClockDate \o <<95>> \o TwoDigits(t \div 3600) \o TwoDigits((t \div 60) % 60)
            \o TwoDigits(t % 60)

\* f"record_{record['month_name']}_{record['year']}_{ts}.json"
Filename(record, t) ==
  <<114, 101, 99, 111, 114, 100, 95>> \o MonthName(record.month) \o <<95>>
    \o FourDigits(record.year) \o <<95>> \o Timestamp(t)
    \o <<46, 106, 115, 111, 110>>

\* open(path, "w") + json.dump: creates the file or replaces its content
WriteFile(fs, path, record) ==
  [f \in DOMAIN fs \cup {path} |-> IF f = path THEN Json(record) ELSE fs[f]]

save_record_json(fs, record, t) == WriteFile(fs, Filename(record, t), record)

\* files.sort(reverse=True) over the names in records/: a name stands after
\* as many names as are greater than it
SortDesc(S) ==
  LET above == [x \in S |-> Cardinality({y \in S : StrLess(x, y)})]
  IN [i \in 1..Cardinality(S) |-> CHOOSE x \in S : above[x] = i - 1]

list_saved_records(fs) == SortDesc(DOMAIN fs)

(* --------------------------- expense rows ------------------------------ *)
\* line 224
DefaultExpenses == <<[name |-> <<82, 101, 110, 116>>, amount |-> 0]>>
\* lines 227 and 414
EmptyRow == [name |-> <<>>, amount |-> 0]
\* list.pop(i), rows numbered from 1
Pop(rows, i) == SubSeq(rows, 1, i - 1) \o SubSeq(rows, i + 1, Len(rows))
add_row(rows) == Append(rows, EmptyRow)
\* lines 229-231
remove_row(rows, i) == IF Len(rows) > 1 THEN Pop(rows, i) ELSE rows
\* line 411
edit_remove_row(rows, i) == Pop(rows, i)
\* lines 238-239 and 407-408: the amount widget's value stored into the row
SetRowAmount(rows, i, a) == [rows EXCEPT ![i].amount = a]

(* ------------------------------ inputs --------------------------------- *)
\* what the user types into the PIN boxes (max_chars=4):
\* "1234", "0000", "12a4", "123"
AllPins == {<<49, 50, 51, 52>>, <<48, 48, 48, 48>>, <<49, 50, 97, 52>>,
            <<49, 50, 51>>}
\* the PIN the user chooses: "1234", or mistyped as "12a4" or "123"
NewPinInputs == AllPins \ {<<48, 48, 48, 48>>}
\* the PIN the user logs in with: "1234" or "0000"
LoginPinInputs == {<<49, 50, 51, 52>>, <<48, 48, 48, 48>>}
\* the month and year selected in the form
FormMonths == {3, 4}
FormYears == {2024}
\* the profit slider of the form, in tenths of a percent: left at 20.0
PctInputs == {200}
\* the profit slider of the edit section: left as loaded, or moved to 25.0
EditPctInputs == {200, 250}
\* the amount typed into an expense row
AmountInputs == {100}
\* the daily sales typed into the form: 10, 20, 30 on the first three days,
\* the widgets' default 0 on the others
DailyInput(n) == [d \in 1..n |-> IF d <= 3 THEN 10 * d ELSE 0]
\* the edited daily sales of lines 390-396: the loaded list as it is, or
\* with 15 typed into day 1
EditedDailyInputs(dlist) == {dlist, [dlist EXCEPT ![1] = 15]}

(* ------------------------------- state --------------------------------- *)
VARIABLES
  pin_file,       \* .pin_hash: None, or Some(the stored hash)
  files,          \* records/*.json: file name |-> text
  pdf_files,      \* records/*.pdf: file name |-> the report written
  now,            \* the clock, in seconds
  unlocked,       \* st.session_state.get("unlocked", False)
  expenses,       \* st.session_state["expenses"], None while the key is absent
  editing_file,   \* st.session_state["editing_file"]
  editing_data,   \* st.session_state["editing_data"]
  edit_expenses,  \* st.session_state["edit_expenses"]
  result,         \* how the last script run ended
  cards,          \* how many saved-record cards the last run rendered in full
  runs            \* how many script runs the user has started

vars == <<pin_file, files, pdf_files, now, unlocked, expenses, editing_file,
          editing_data, edit_expenses, result, cards, runs>>

session == <<expenses, editing_file, editing_data, edit_expenses>>

\* the first script run of a fresh installation: no .pin_hash, so the run
\* stops at line 176 with the set-PIN page
Init ==
  /\ pin_file = None
  /\ files = <<>>
  /\ pdf_files = <<>>
  /\ now = 0
  /\ unlocked = FALSE
  /\ expenses = None
  /\ editing_file = None
  /\ editing_data = None
  /\ edit_expenses = None
  /\ result = "setup"
  /\ cards = 0
  /\ runs = 0

(* ---------------------------- access gate ------------------------------ *)
\* a comparison that accepts whatever is submitted once a hash is stored
check_pin_any(pin) == IsSome(pin_file)

\* lines 54-59
check_pin(pin) == IsSome(pin_file) /\ Val(pin_file) = sha256(pin)

\* line 169
ValidPin(pin) == isdigit(pin) /\ Len(pin) = 4

\* lines 165 and 187: with a stored hash, the run gets past line 189
GateOpen(u) == IsSome(pin_file) /\ u

\* what the last run left on the page: the set-PIN box (lines 166-168), the
\* sidebar with the Unlock button (lines 178-180), the form (lines 191-329)
SetupShown == pin_file = None
SidebarShown == IsSome(pin_file) /\ result # "PIN saved"
FormShown == result \in {"ok", "NameError at 321", "NameError at 366", "LoadError"}
EditShown == result = "ok" /\ IsSome(editing_data)

(* --------------------------- the script run ---------------------------- *)
\* line 223-224: every run that passes the gate leaves the key "expenses" set
Exps == IF IsSome(expenses) THEN Val(expenses) ELSE DefaultExpenses

\* the place in the listing (lines 350-352) of the first file load_record
\* raises on, 0 when every file loads
FirstBad(fs) ==
  IF \A f \in DOMAIN fs : Parses(fs[f]) THEN 0
  ELSE LET lst == list_saved_records(fs)
       IN CHOOSE i \in 1..Len(lst) :
            /\ ~Parses(fs[lst[i]])
            /\ \A j \in 1..(i - 1) : Parses(fs[lst[j]])

\* one more script run started by the user
Started == runs < MaxRuns /\ runs' = runs + 1

\* a run stopped by st.stop() at line 174, 176 or 189: nothing below line 189
\* is executed
Stopped(r) ==
  /\ result' = r
  /\ cards' = 0
  /\ UNCHANGED <<files, pdf_files, session>>

\* lines 191-443 with no button pressed, from the record files fs and the
\* session values given: the form, the listing (which loads every file), then
\* the edit section, which sets "edit_expenses" only while that key is absent
\* (lines 398-400).  An exception of load_record ends the run at its card.
RunBody(fs, pdfs, exps, efile, edata, eexps) ==
  \E bad \in {FirstBad(fs)} :
     /\ files' = fs
     /\ pdf_files' = pdfs
     /\ expenses' = Some(exps)
     /\ editing_file' = efile
     /\ editing_data' = edata
     /\ IF bad # 0
        THEN /\ result' = "LoadError"
             /\ cards' = bad - 1
             /\ edit_expenses' = eexps
        ELSE /\ result' = "ok"
             /\ cards' = Len(list_saved_records(fs))
             /\ edit_expenses' = IF IsSome(edata) /\ ~IsSome(eexps)
                                 THEN Some(Val(edata).expenses)
                                 ELSE eexps

\* the run as it is when the pressed button changes nothing before the listing
RunAsIs == RunBody(files, pdf_files, Exps, editing_file, editing_data,
                   edit_expenses)

\* an uncaught exception at line 321 or 366, after n full cards
Raised(fs, where, n) ==
  /\ files' = fs
  /\ expenses' = Some(Exps)
  /\ result' = where
  /\ cards' = n
  /\ UNCHANGED <<pdf_files, editing_file, editing_data, edit_expenses>>

(* ------------------------------ the gate ------------------------------- *)
\* lines 165-176, the Set PIN button pressed with pin in the box: a valid pin
\* is stored and the run stops at line 174; after the st.error of line 170
\* there is no st.stop(), so the run goes on at line 191 with no other button
\* pressed
SetPinClick(pin) ==
  /\ Started
  /\ pin_file = None
  /\ SetupShown
  /\ IF ~ValidPin(pin)
     THEN /\ pin_file' = pin_file
          /\ RunAsIs
     ELSE /\ pin_file' = Some(sha256(pin))
          /\ Stopped("PIN saved")
  /\ UNCHANGED <<now, unlocked>>

\* lines 178-189, the Unlock button pressed with pin in the box
UnlockClick(pin) ==
  /\ Started
  /\ IsSome(pin_file)
  /\ SidebarShown
  /\ unlocked' = check_pin(pin)
  /\ IF GateOpen(check_pin(pin)) THEN RunAsIs ELSE Stopped("Incorrect PIN")
  /\ UNCHANGED <<pin_file, now>>

\* a run no button started: a widget touched, the page asked again
Rerun ==
  /\ Started
  /\ IF GateOpen(unlocked) THEN RunAsIs
     ELSE IF pin_file = None THEN Stopped("setup")
     ELSE Stopped("locked")
  /\ UNCHANGED <<pin_file, now, unlocked>>

(* ------------------------------ the report ----------------------------- *)
\* lines 94-156: the document built from a record; the logo is embedded only
\* when a path is given (and the file exists and decodes), lines 105-111
generate_pdf_bytes(record, daily_sales, logo_path) ==
  [title |-> MonthName(record.month) \o <<32>> \o FourDigits(record.year),
   image |-> IsSome(logo_path),
   summary |-> <<record.total_sales, record.profit_pct, record.profit_amount,
                 record.total_expenses, record.remaining_profit>>,
   daily |-> daily_sales,
   expenses |-> record.expenses]

\* the name logo_to_use, read at lines 321 and 366, is bound nowhere in the
\* program: reading it raises NameError
logo_to_use_bound == FALSE
\* no logo image supplied in the session
logo_to_use == None

\* f"AR_Report_{month_name}_{year}_{ts}.pdf", line 324
ReportName(month, year, t) ==
  <<65, 82, 95, 82, 101, 112, 111, 114, 116, 95>> \o MonthName(month) \o <<95>> \o FourDigits(year) \o <<95>>
    \o Timestamp(t) \o <<46, 112, 100, 102>>
\* fname.replace(".json", ".pdf"), line 367
CardReportName(fname) == SubSeq(fname, 1, Len(fname) - 5) \o <<46, 112, 100, 102>>

WritePdf(pdfs, name, doc) ==
  [f \in DOMAIN pdfs \cup {name} |-> IF f = name THEN doc ELSE pdfs[f]]

(* ------------------------------- the form ------------------------------ *)
\* lines 241-243: Remove on row i, then st.rerun()
RemoveRow(i) ==
  /\ Started
  /\ GateOpen(unlocked) /\ FormShown
  /\ i \in 1..Len(Exps)
  /\ RunBody(files, pdf_files, remove_row(Exps, i), editing_file,
             editing_data, edit_expenses)
  /\ UNCHANGED <<pin_file, now, unlocked>>

\* lines 245-247: Add Expense Field, then st.rerun()
AddRow ==
  /\ Started
  /\ GateOpen(unlocked) /\ FormShown
  /\ RunBody(files, pdf_files, add_row(Exps), editing_file, editing_data,
             edit_expenses)
  /\ UNCHANGED <<pin_file, now, unlocked>>

\* lines 238-239: a typed into the amount box of row i
SetAmount(i, a) ==
  /\ Started
  /\ GateOpen(unlocked) /\ FormShown
  /\ i \in 1..Len(Exps)
  /\ RunBody(files, pdf_files, SetRowAmount(Exps, i, a), editing_file,
             editing_data, edit_expenses)
  /\ UNCHANGED <<pin_file, now, unlocked>>

\* lines 281-298: Save Record (JSON)
SaveRecord(month, year, pct) ==
  /\ Started
  /\ GateOpen(unlocked) /\ FormShown
  /\ \E record \in {BuildRecord(now, month, year, pct,
                                DailyInput(days_in_month(year, month)), Exps)} :
       RunBody(save_record_json(files, record, now), pdf_files, Exps,
               editing_file, editing_data, edit_expenses)
  /\ UNCHANGED <<pin_file, now, unlocked>>

\* lines 301-329: Generate PDF (Save & Download): the record is saved at line
\* 319, then line 321 reads logo_to_use
GeneratePdf(month, year, pct) ==
  /\ Started
  /\ GateOpen(unlocked) /\ FormShown
  /\ \E record \in {BuildRecord(now, month, year, pct,
                                DailyInput(days_in_month(year, month)), Exps)} :
       IF logo_to_use_bound
       THEN RunBody(save_record_json(files, record, now),
                    WritePdf(pdf_files, ReportName(month, year, now),
                             generate_pdf_bytes(record, record.daily_sales,
                                                logo_to_use)),
                    Exps, editing_file, editing_data, edit_expenses)
       ELSE Raised(save_record_json(files, record, now), "NameError at 321", 0)
  /\ UNCHANGED <<pin_file, now, unlocked>>

(* ------------------------------ the listing ---------------------------- *)
\* the buttons of card i the last run rendered: Load with the full card, the
\* PDF button also on the card the run ended in at line 366
LoadShown(i) == FormShown /\ i <= cards
PdfShown(i) ==
  \/ LoadShown(i)
  \/ i = cards + 1 /\ result = "NameError at 366"

\* lines 365-372: Generate & Download PDF on card i
GeneratePdfFor(i) ==
  /\ Started
  /\ GateOpen(unlocked) /\ PdfShown(i)
  /\ i \in 1..Cardinality(DOMAIN files)
  /\ \E lst \in {list_saved_records(files)} : \E bad \in {FirstBad(files)} :
       IF bad # 0 /\ bad <= i THEN RunAsIs
       ELSE IF logo_to_use_bound
       THEN RunBody(files,
                    WritePdf(pdf_files, CardReportName(lst[i]),
                             generate_pdf_bytes(load_record(files[lst[i]]),
                               load_record(files[lst[i]]).daily_sales,
                               logo_to_use)),
                    Exps, editing_file, editing_data, edit_expenses)
       ELSE Raised(files, "NameError at 366", i - 1)
  /\ UNCHANGED <<pin_file, now, unlocked>>

\* lines 374-378: Load this record to edit on card i, then st.rerun()
LoadToEdit(i) ==
  /\ Started
  /\ GateOpen(unlocked) /\ LoadShown(i)
  /\ i \in 1..Cardinality(DOMAIN files)
  /\ \E lst \in {list_saved_records(files)} : \E bad \in {FirstBad(files)} :
       IF bad # 0 /\ bad <= i THEN RunAsIs
       ELSE RunBody(files, pdf_files, Exps, Some(lst[i]),
                    Some(load_record(files[lst[i]])), edit_expenses)
  /\ UNCHANGED <<pin_file, now, unlocked>>

(* ---------------------------- the edit section ------------------------- *)
\* the rows of the edit section, none while no record is being edited
EditRows == IF IsSome(edit_expenses) THEN Val(edit_expenses) ELSE <<>>
\* what the user may leave in the day boxes of the edit section
EditedDailyChoices ==
  IF IsSome(editing_data) THEN EditedDailyInputs(Val(editing_data).daily_sales)
  ELSE {}

\* the listing of this run raised before the edit section
ListingRaises == FirstBad(files) # 0

\* lines 410-412: Remove on edit row i, then st.rerun()
EditRemoveRow(i) ==
  /\ Started
  /\ GateOpen(unlocked) /\ EditShown
  /\ i \in 1..Len(Val(edit_expenses))
  /\ IF ListingRaises THEN RunAsIs
     ELSE RunBody(files, pdf_files, Exps, editing_file, editing_data,
                  Some(edit_remove_row(Val(edit_expenses), i)))
  /\ UNCHANGED <<pin_file, now, unlocked>>

\* lines 413-415: Add Expense (edit), then st.rerun()
EditAddRow ==
  /\ Started
  /\ GateOpen(unlocked) /\ EditShown
  /\ IF ListingRaises THEN RunAsIs
     ELSE RunBody(files, pdf_files, Exps, editing_file, editing_data,
                  Some(add_row(Val(edit_expenses))))
  /\ UNCHANGED <<pin_file, now, unlocked>>

\* lines 407-408: a typed into the amount box of edit row i
EditSetAmount(i, a) ==
  /\ Started
  /\ GateOpen(unlocked) /\ EditShown
  /\ i \in 1..Len(Val(edit_expenses))
  /\ IF ListingRaises THEN RunAsIs
     ELSE RunBody(files, pdf_files, Exps, editing_file, editing_data,
                  Some(SetRowAmount(Val(edit_expenses), i, a)))
  /\ UNCHANGED <<pin_file, now, unlocked>>

\* an edit commit that saves the edited dict as a record of its own
WriteBackAsNew(fs, path, ed) == save_record_json(fs, ed, now)

\* lines 434-436: the edited dict written to the path it was loaded from
WriteBack(fs, path, ed) == WriteFile(fs, path, ed)

\* lines 417-443: Save Changes to JSON, then st.rerun()
SaveChanges(pct, daily) ==
  /\ Started
  /\ GateOpen(unlocked) /\ EditShown
  /\ daily \in EditedDailyChoices
  /\ IF ListingRaises THEN RunAsIs
     ELSE RunBody(WriteBack(files, Val(editing_file),
                            EditedRecord(Val(editing_data), pct, daily,
                                         Val(edit_expenses))),
                  pdf_files, Exps, None, None, None)
  /\ UNCHANGED <<pin_file, now, unlocked>>

(* ---------------------------- the environment -------------------------- *)
\* a second passes
Tick ==
  /\ now < MaxTime
  /\ now' = now + 1
  /\ UNCHANGED <<pin_file, files, pdf_files, unlocked, session, result, cards, runs>>

\* a record file's text is damaged outside the program
DamageFile(f) ==
  /\ f \in DOMAIN files
  /\ Parses(files[f])
  /\ files' = [files EXCEPT ![f] = Garbage]
  /\ UNCHANGED <<pin_file, pdf_files, now, unlocked, session, result, cards, runs>>

(* --------------------------- specifications ---------------------------- *)
Next ==
  \/ \E pin \in NewPinInputs : SetPinClick(pin)
  \/ \E pin \in LoginPinInputs : UnlockClick(pin)
  \/ Rerun
  \/ \E i \in 1..Len(Exps) : RemoveRow(i)
  \/ AddRow
  \/ \E i \in 1..Len(Exps), a \in AmountInputs : SetAmount(i, a)
  \/ \E m \in FormMonths, y \in FormYears, pct \in PctInputs : SaveRecord(m, y, pct)
  \/ \E m \in FormMonths, y \in FormYears, pct \in PctInputs : GeneratePdf(m, y, pct)
  \/ \E i \in 1..Cardinality(DOMAIN files) : GeneratePdfFor(i)
  \/ \E i \in 1..Cardinality(DOMAIN files) : LoadToEdit(i)
  \/ \E i \in 1..Len(EditRows) : EditRemoveRow(i)
  \/ EditAddRow
  \/ \E i \in 1..Len(EditRows), a \in AmountInputs : EditSetAmount(i, a)
  \/ \E pct \in EditPctInputs, daily \in EditedDailyChoices :
       SaveChanges(pct, daily)
  \/ Tick

\* the program alone
Spec == Init /\ [][Next]_vars

\* the program with record files damaged from outside
Damage == \E f \in DOMAIN files : DamageFile(f)
NextFaulty == Next \/ Damage
SpecFaulty == Init /\ [][NextFaulty]_vars

(* ------------------------------- claims -------------------------------- *)
\* a run of the session that got past the gate
Unlocked == IsSome(pin_file) /\ unlocked
Records == {load_record(files[f]) : f \in {g \in DOMAIN files : Parses(files[g])}}
\* where file f stands in the listing
Position(f) ==
  LET lst == list_saved_records(files) IN CHOOSE i \in 1..Len(lst) : lst[i] = f

\* C1 as stated: a run that does not end Unlocked (no stored hash, or no
\* matching code submitted) stops at the gate: it shows neither the form nor
\* the listing nor the edit section, touches no session state of theirs and
\* creates, overwrites or lists no record or report.
C1_Original ==
  [][~Unlocked' =>
       /\ files' = files
       /\ pdf_files' = pdf_files
       /\ session' = session
       /\ cards' = 0
       /\ ~FormShown' /\ ~EditShown']_vars

\* C2 as stated: once Unlocked the session stays Unlocked whatever follows,
\* a later mismatching submission included; a mismatch from Locked stays
\* Locked.
C2_Original ==
  [][/\ unlocked => unlocked'
     /\ \A pin \in LoginPinInputs :
          (~unlocked /\ UnlockClick(pin) /\ Val(pin_file) # sha256(pin))
            => ~unlocked']_vars

\* C2 amended: a submission unlocks the session exactly when the code matches
\* the stored hash (so a mismatch leaves Locked locked, and locks an Unlocked
\* session again), and an Unlocked session stays Unlocked under every step
\* that is not a mismatching submission.
C2_Amended ==
  [][/\ \A pin \in LoginPinInputs :
          UnlockClick(pin) => (unlocked' <=> Val(pin_file) = sha256(pin))
     /\ (unlocked /\ ~\E pin \in LoginPinInputs :
                        UnlockClick(pin) /\ Val(pin_file) # sha256(pin))
          => unlocked']_vars

\* C2 witness: a session that was unlocked by a matching code and saved a
\* record has been locked again by a mismatching submission
C2_Witness ==
  /\ IsSome(pin_file) /\ ~unlocked
  /\ result = "Incorrect PIN"
  /\ DOMAIN files # {}

\* the four derived-total equations of a record (profit_pct in tenths of a
\* percent, profit_amount and remaining_profit in thousandths)
Consistent(r) ==
  /\ r.total_sales = SumSeq(r.daily_sales)
  /\ 10 * 100 * r.profit_amount = Milli * r.total_sales * r.profit_pct
  /\ r.total_expenses = SumSeq([i \in 1..Len(r.expenses) |-> r.expenses[i].amount])
  /\ r.remaining_profit = r.profit_amount - Milli * r.total_expenses

\* C3: every persisted record satisfies the four derived-total equations
\* together, whatever saves, report generations and edit commits wrote it.
C3_TotalsConsistent == \A r \in Records : Consistent(r)

\* C3 witness: an edit-and-overwrite: daily sales 10, 20, 30, the percentage
\* moved from 20 to 25, a second expense added and 100 typed into one of the
\* two, giving 60, 15, 100, -85
C3_Witness ==
  \E r \in Records :
    /\ SubSeq(r.daily_sales, 1, 3) = <<10, 20, 30>>
    /\ r.profit_pct = 250
    /\ Len(r.expenses) = 2
    /\ r.total_sales = 60
    /\ r.profit_amount = 15 * Milli
    /\ r.total_expenses = 100
    /\ r.remaining_profit = -85 * Milli

\* C4 as stated, for the saves that change the store: a Save Record step adds
\* one record file (a new identifier, nothing overwritten).
C4_Original ==
  [][(/\ files' # files
      /\ \E m \in FormMonths, y \in FormYears, pct \in PctInputs :
           SaveRecord(m, y, pct))
       => /\ Cardinality(DOMAIN files') = Cardinality(DOMAIN files) + 1
          /\ \A f \in DOMAIN files : files'[f] = files[f]]_vars

\* C5: a Save Changes step writes the edited record to the file it was loaded
\* from and to no other: the same file names before and after, every other
\* file's text unchanged, the edited expenses and percentage in the loaded
\* file, and the edit session cleared.
C5_CommitInPlace ==
  [][\A pct \in EditPctInputs :
       (\E daily \in EditedDailyChoices : SaveChanges(pct, daily))
       => /\ DOMAIN files' = DOMAIN files
          /\ \A f \in DOMAIN files \ {Val(editing_file)} : files'[f] = files[f]
          /\ Parses(files'[Val(editing_file)])
          /\ load_record(files'[Val(editing_file)]).expenses = Val(edit_expenses)
          /\ load_record(files'[Val(editing_file)]).profit_pct = pct
          /\ editing_file' = None /\ editing_data' = None
          /\ edit_expenses' = None]_vars

\* C5 witness: an edit was committed (only an edit sets 25 percent or removes
\* every expense) beside another record, and the edit session is over
C5_Witness ==
  /\ editing_file = None /\ editing_data = None /\ edit_expenses = None
  /\ Cardinality(DOMAIN files) >= 2
  /\ \E r \in Records : r.profit_pct = 250

\* C6 as stated: of any two persisted records, the one saved later stands
\* earlier in the listing.
C6_Original ==
  \A f, g \in DOMAIN files :
    (Parses(files[f]) /\ Parses(files[g])
     /\ load_record(files[f]).created_at < load_record(files[g]).created_at)
      => Position(g) < Position(f)

\* C7 as stated: with no logo supplied, a generate-report step (from the form
\* or from a saved record's card) ends without an error and leaves a report
\* without an image.
C7_Original ==
  [][(/\ logo_to_use = None
      /\ \/ \E m \in FormMonths, y \in FormYears, pct \in PctInputs :
              GeneratePdf(m, y, pct)
         \/ \E i \in 1..Cardinality(DOMAIN files) : GeneratePdfFor(i))
       => /\ result' = "ok"
          /\ \E n \in DOMAIN pdf_files' : ~pdf_files'[n].image]_vars

\* C8 as stated: when loading a damaged record file raises, the run goes on:
\* every other record file still has its card, with its Load button, and the
\* edit section of a loaded record is still there.
C8_Original ==
  (Unlocked /\ result = "LoadError")
    => /\ \A f \in DOMAIN files : Parses(files[f]) => LoadShown(Position(f))
       /\ IsSome(editing_data) => IsSome(edit_expenses)

\* C9 as stated: the expense list of the form and the expense list of the
\* edit section each hold at least one row at all times.
C9_Original ==
  /\ IsSome(expenses) => Len(Val(expenses)) >= 1
  /\ IsSome(edit_expenses) => Len(Val(edit_expenses)) >= 1

\* C10 as stated, for a load of another record than the one being edited: a
\* Load step leaves the editable expense list equal to the expenses of the
\* record it loaded.
C10_Original ==
  [][(/\ editing_file' # editing_file
      /\ \E i \in 1..Cardinality(DOMAIN files) : LoadToEdit(i))
       => edit_expenses' = Some(load_record(files'[Val(editing_file')]).expenses)]_vars

====
